---- MODULE Spec2Model ----
(***************************************************************************)
(* The EKS waiters of aws/internal/service/eks/waiter/waiter.go.           *)
(*                                                                         *)
(* Every waiter builds a StateChangeConf (Pending, Target, Refresh,        *)
(* Timeout), runs WaitForState / WaitForStateContext on it and then       *)
(* post-processes the pair (outputRaw, err).  The configurations and the   *)
(* post-processing are translated from waiter.go.  The polling loop        *)
(* itself (StateChangeConf.WaitForStateContext) and the Refresh functions  *)
(* are not part of waiter.go: the loop is modelled from section 4.1 of    *)
(* the specification and the probe is an arbitrary function of the         *)
(* environment.                                                            *)
(*                                                                         *)
(* Time is counted in units of 20 minutes.  Strings that the code formats  *)
(* are sequences of tokens: a literal piece of a format string, or the     *)
(* value substituted for one verb.                                         *)
(***************************************************************************)
EXTENDS Integers, Sequences, FiniteSets, TLC

\* ---------------------------------------------------------------- bounds
\* probes and sleeps are counted exactly up to MaxProbes; beyond it the
\* counters saturate and overflow is raised (the loop itself goes on)
MaxProbes == 3
\* most sub-errors in one payload
MaxErrs == 2
\* caller-supplied timeouts range over 0..MaxTimeout
MaxTimeout == 2

\* ------------------------------------------------------ program constants
EksAddonCreatedTimeout == 1
EksAddonUpdatedTimeout == 1
EksAddonDeletedTimeout == 2

\* the clock stops one unit after the latest possible deadline
MaxTime ==
  (IF MaxTimeout > EksAddonDeletedTimeout THEN MaxTimeout ELSE EksAddonDeletedTimeout) + 1

\* ------------------------------------------------------------- the waiters
Waiters ==
  { "ClusterCreated", "ClusterDeleted", "ClusterUpdateSuccessful",
    "FargateProfileCreated", "FargateProfileDeleted",
    "NodegroupCreated", "NodegroupDeleted", "NodegroupUpdateSuccessful",
    "EksAddonCreated", "EksAddonDeleted", "EksAddonUpdateSuccessful" }


\* Pending with the pending set of the delete waiters in EksAddonCreated
Pending_CreatedWaitsOnActive(wn) ==
  CASE wn \in {"ClusterCreated", "FargateProfileCreated", "NodegroupCreated"} -> {"CREATING"}
    [] wn \in {"ClusterUpdateSuccessful", "NodegroupUpdateSuccessful",
               "EksAddonUpdateSuccessful"} -> {"InProgress"}
    [] OTHER -> {"ACTIVE", "DELETING"}

\* StateChangeConf.Pending of each waiter
Pending(wn) ==
  CASE wn = "ClusterCreated"            -> {"CREATING"}
    [] wn = "ClusterDeleted"            -> {"ACTIVE", "DELETING"}
    [] wn = "ClusterUpdateSuccessful"   -> {"InProgress"}
    [] wn = "FargateProfileCreated"     -> {"CREATING"}
    [] wn = "FargateProfileDeleted"     -> {"ACTIVE", "DELETING"}
    [] wn = "NodegroupCreated"          -> {"CREATING"}
    [] wn = "NodegroupDeleted"          -> {"ACTIVE", "DELETING"}
    [] wn = "NodegroupUpdateSuccessful" -> {"InProgress"}
    [] wn = "EksAddonCreated"           -> {"CREATING"}
    [] wn = "EksAddonDeleted"           -> {"ACTIVE", "DELETING"}
    [] wn = "EksAddonUpdateSuccessful"  -> {"InProgress"}


\* Target with only "Successful" in EksAddonUpdateSuccessful, as in the
\* cluster and node group update waiters
Target_AddonUpdateSuccessOnly(wn) ==
  CASE wn \in {"ClusterCreated", "FargateProfileCreated", "NodegroupCreated"} -> {"ACTIVE"}
    [] wn \in {"ClusterUpdateSuccessful", "NodegroupUpdateSuccessful",
               "EksAddonUpdateSuccessful"} -> {"Successful"}
    [] wn = "EksAddonCreated" -> {"ACTIVE", "CREATE_FAILED"}
    [] OTHER -> {}

\* Target with the three terminal states in NodegroupUpdateSuccessful, as in
\* EksAddonUpdateSuccessful
Target_NodegroupAllTerminal(wn) ==
  CASE wn \in {"ClusterCreated", "FargateProfileCreated", "NodegroupCreated"} -> {"ACTIVE"}
    [] wn = "ClusterUpdateSuccessful" -> {"Successful"}
    [] wn \in {"NodegroupUpdateSuccessful", "EksAddonUpdateSuccessful"} ->
         {"Cancelled", "Failed", "Successful"}
    [] wn = "EksAddonCreated" -> {"ACTIVE", "CREATE_FAILED"}
    [] OTHER -> {}

\* StateChangeConf.Target of each waiter
Target(wn) ==
  CASE wn = "ClusterCreated"            -> {"ACTIVE"}
    [] wn = "ClusterDeleted"            -> {}
    [] wn = "ClusterUpdateSuccessful"   -> {"Successful"}
    [] wn = "FargateProfileCreated"     -> {"ACTIVE"}
    [] wn = "FargateProfileDeleted"     -> {}
    [] wn = "NodegroupCreated"          -> {"ACTIVE"}
    [] wn = "NodegroupDeleted"          -> {}
    [] wn = "NodegroupUpdateSuccessful" -> {"Successful"}
    [] wn = "EksAddonCreated"           -> {"ACTIVE", "CREATE_FAILED"}
    [] wn = "EksAddonDeleted"           -> {}
    [] wn = "EksAddonUpdateSuccessful"  -> {"Cancelled", "Failed", "Successful"}


\* Timeouts with EksAddonDeletedTimeout in EksAddonCreated
Timeouts_CreatedUsesDeletedTimeout(wn) ==
  CASE wn = "EksAddonCreated"          -> {EksAddonDeletedTimeout}
    [] wn = "EksAddonDeleted"          -> {EksAddonDeletedTimeout}
    [] wn = "EksAddonUpdateSuccessful" -> {EksAddonUpdatedTimeout}
    [] OTHER                           -> 0..MaxTimeout

\* StateChangeConf.Timeout of each waiter: the caller's argument, or the
\* package constant of the add-on waiters
Timeouts(wn) ==
  CASE wn = "EksAddonCreated"          -> {EksAddonCreatedTimeout}
    [] wn = "EksAddonDeleted"          -> {EksAddonDeletedTimeout}
    [] wn = "EksAddonUpdateSuccessful" -> {EksAddonUpdatedTimeout}
    [] OTHER                           -> 0..MaxTimeout

\* the waiters that take a context and call WaitForStateContext(ctx); the
\* others call WaitForState(), which no caller can cancel
HasCtx(wn) == wn \in {"EksAddonCreated", "EksAddonDeleted", "EksAddonUpdateSuccessful"}

\* the waiters on an *eks.Update
UpdateWaiters ==
  {"ClusterUpdateSuccessful", "NodegroupUpdateSuccessful", "EksAddonUpdateSuccessful"}

\* the status the code of a waiter reads as a failure of the operation
FailureStates(wn) ==
  CASE wn \in UpdateWaiters     -> {"Cancelled", "Failed"}
    [] wn = "EksAddonCreated"   -> {"CREATE_FAILED"}
    [] OTHER                    -> {}

\* a status of the resource kind that the waiter names nowhere; for an
\* update it is the unset Status, which aws.StringValue reads as ""
OtherState(wn) ==
  CASE wn \in UpdateWaiters -> {""}
    [] wn \in {"EksAddonCreated", "EksAddonDeleted"} -> {"DEGRADED"}
    [] OTHER -> {"FAILED"}

\* ------------------------------------------------------------------ values
\* sub-errors {code, message} of a payload (Addon.Health.Issues, Update.Errors)
SubErrs == { <<"E1", "boom">>, <<"E2", "bad">> }

RECURSIVE SeqsUpTo(_, _)
SeqsUpTo(S, n) ==
  IF n = 0 THEN { <<>> }
  ELSE LET shorter == SeqsUpTo(S, n - 1)
       IN  shorter \cup { Append(s, x) : s \in { t \in shorter : Len(t) = n - 1 }, x \in S }

Payloads == SeqsUpTo(SubErrs, MaxErrs)

\* the nil object; a snapshot is numbered by the probe that returned it
NilObj == [id |-> 0, status |-> "", errors |-> <<>>]

\* the nil error
NilErr == [kind |-> "nil", state |-> "", code |-> "", msg |-> <<>>]

TimeoutError(lastState) ==
  [kind |-> "Timeout", state |-> lastState, code |-> "", msg |-> <<>>]

UnexpectedStateError(state) ==
  [kind |-> "UnexpectedState", state |-> state, code |-> "", msg |-> <<>>]

ProbeError(code) ==
  [kind |-> "ProbeError", state |-> "", code |-> code, msg |-> <<>>]

CancellationError ==
  [kind |-> "Cancelled", state |-> "", code |-> "", msg |-> <<>>]

\* the error of fmt.Errorf in a classifier
FailureError(status, msg) ==
  [kind |-> "AggregatedFailure", state |-> status, code |-> "", msg |-> msg]

\* error codes a Refresh function can fail with
ErrCodes == {"ResourceNotFoundException", "AccessDeniedException"}

\* what one call of Refresh can return as probe number n
PollResults(wn, n) ==
  { [kind |-> "state", obj |-> [id |-> n, status |-> s, errors |-> <<>>], code |-> ""] :
      s \in (Pending(wn) \cup Target(wn) \cup OtherState(wn)) \ FailureStates(wn) }
  \cup
  { [kind |-> "state", obj |-> [id |-> n, status |-> s, errors |-> p], code |-> ""] :
      s \in FailureStates(wn), p \in Payloads }
  \cup
  { [kind |-> "notfound", obj |-> NilObj, code |-> ""] }
  \cup
  { [kind |-> "error", obj |-> NilObj, code |-> c] : c \in ErrCodes }

NoPoll == [kind |-> "none", obj |-> NilObj, code |-> ""]

\* --------------------------------------------------------------- formatting
\* fmt's %d of a small positive number
Itoa(n) ==
  CASE n = 1 -> "1" [] n = 2 -> "2" [] n = 3 -> "3" [] n = 4 -> "4"
    [] n = 5 -> "5" [] n = 6 -> "6" [] n = 7 -> "7" [] n = 8 -> "8"
    [] n = 9 -> "9" [] OTHER -> "0"

\* strings.Join(elems, sep) on token sequences
RECURSIVE Join(_, _)
Join(elems, sep) ==
  IF elems = <<>> THEN <<>>
  ELSE IF Len(elems) = 1 THEN elems[1]
  ELSE elems[1] \o <<sep>> \o Join(Tail(elems), sep)

\* the Sprintf of EksAddonCreated numbering from the range index i, not i+1
AddonIssueLine_ZeroBased(idx, issue) ==
  <<"Error ", Itoa(idx), ": Code: ", issue[1], " / Message: ", issue[2]>>

\* fmt.Sprintf("Error %d: Code: %s / Message: %s", i+1, Code, Message) of
\* EksAddonCreated; idx is the 0-based range index i
AddonIssueLine(idx, issue) ==
  <<"Error ", Itoa(idx + 1), ": Code: ", issue[1], " / Message: ", issue[2]>>

\* the same Sprintf of EksAddonUpdateSuccessful
UpdateErrorLine(idx, updateError) ==
  <<"Error ", Itoa(idx + 1), ": Code: ", updateError[1], " / Message: ", updateError[2]>>

\* fmt.Errorf("%s: %s", ErrorCode, ErrorMessage) of the cluster and node
\* group update waiters
UpdateErrorf(e) == <<e[1], ": ", e[2]>>

\* errs.ErrorOrNil() of the *multierror.Error built by multierror.Append:
\* nil (no tokens) when nothing was appended, else the appended errors in
\* order (multierror's own decoration of the list is left out)
ErrorOrNil(errs) == IF errs = <<>> THEN <<>> ELSE Join(errs, "\n")

\* tfresource.SetLastError(err, lastErr): a TimeoutError or an
\* UnexpectedStateError without a last error takes lastErr; err stays the
\* error it was
SetLastError(err, lastErr) ==
  IF err.kind \in {"Timeout", "UnexpectedState"} /\ err.msg = <<>>
  THEN [err EXCEPT !.msg = lastErr]
  ELSE err

\* tfawserr.ErrCodeEquals(err, code)
ErrCodeEquals(err, code) == err.kind = "ProbeError" /\ err.code = code

\* what a waiter returns
Ret(o, e) == [obj |-> o, err |-> e]

\* ------------------------------------------------ the waiters' return paths
\* Each takes what WaitForState / WaitForStateContext returned.  The type
\* assertion outputRaw.(*T) succeeds exactly when outputRaw is an object.
\* A definition named <waiter>_<change> is the waiter with one slip in it.

\* ClusterCreated with "return nil, err" on both paths
ClusterCreated_DropsObject(outputRaw, err) == Ret(NilObj, err)

ClusterCreated(outputRaw, err) ==
  IF outputRaw # NilObj THEN Ret(outputRaw, err) ELSE Ret(NilObj, err)

\* ClusterDeleted ending in "return nil, nil"
ClusterDeleted_NilNil(outputRaw, err) ==
  IF outputRaw # NilObj THEN Ret(outputRaw, err) ELSE Ret(NilObj, NilErr)

ClusterDeleted(outputRaw, err) ==
  IF outputRaw # NilObj THEN Ret(outputRaw, err) ELSE Ret(NilObj, err)

\* ClusterUpdateSuccessful returning the aggregated errors in place of err
ClusterUpdateSuccessful_ErrsOnly(outputRaw, err) ==
  IF outputRaw # NilObj
  THEN IF outputRaw.status = "Cancelled" \/ outputRaw.status = "Failed"
       THEN LET errs == [i \in 1..Len(outputRaw.errors) |-> UpdateErrorf(outputRaw.errors[i])]
            IN  Ret(outputRaw, FailureError(outputRaw.status, ErrorOrNil(errs)))
       ELSE Ret(outputRaw, err)
  ELSE Ret(NilObj, err)

ClusterUpdateSuccessful(outputRaw, err) ==
  IF outputRaw # NilObj
  THEN IF outputRaw.status = "Cancelled" \/ outputRaw.status = "Failed"
       THEN LET errs == [i \in 1..Len(outputRaw.errors) |-> UpdateErrorf(outputRaw.errors[i])]
            IN  Ret(outputRaw, SetLastError(err, ErrorOrNil(errs)))
       ELSE Ret(outputRaw, err)
  ELSE Ret(NilObj, err)

FargateProfileCreated(outputRaw, err) ==
  IF outputRaw # NilObj THEN Ret(outputRaw, err) ELSE Ret(NilObj, err)

FargateProfileDeleted(outputRaw, err) ==
  IF outputRaw # NilObj THEN Ret(outputRaw, err) ELSE Ret(NilObj, err)

\* NodegroupCreated with "return nil, err" on both paths
NodegroupCreated_DropsObject(outputRaw, err) == Ret(NilObj, err)

NodegroupCreated(outputRaw, err) ==
  IF outputRaw # NilObj THEN Ret(outputRaw, err) ELSE Ret(NilObj, err)

NodegroupDeleted(outputRaw, err) ==
  IF outputRaw # NilObj THEN Ret(outputRaw, err) ELSE Ret(NilObj, err)

NodegroupUpdateSuccessful(outputRaw, err) ==
  IF outputRaw # NilObj
  THEN IF outputRaw.status = "Cancelled" \/ outputRaw.status = "Failed"
       THEN LET errs == [i \in 1..Len(outputRaw.errors) |-> UpdateErrorf(outputRaw.errors[i])]
            IN  Ret(outputRaw, SetLastError(err, ErrorOrNil(errs)))
       ELSE Ret(outputRaw, err)
  ELSE Ret(NilObj, err)

\* EksAddonCreated without the "CREATE_FAILED" branch
EksAddonCreated_NoFailureCheck(outputRaw, err) ==
  IF outputRaw # NilObj THEN Ret(outputRaw, err) ELSE Ret(NilObj, err)

\* EksAddonCreated ending in "return nil, nil"
EksAddonCreated_NilNil(outputRaw, err) ==
  IF outputRaw # NilObj
  THEN IF outputRaw.status = "CREATE_FAILED"
       THEN LET detailedErrors ==
                  [i \in 1..Len(outputRaw.errors) |-> AddonIssueLine(i - 1, outputRaw.errors[i])]
            IN  Ret(outputRaw,
                    FailureError(outputRaw.status,
                      <<"creation not successful (", outputRaw.status, "): Errors:\n">>
                        \o Join(detailedErrors, "\n")))
       ELSE Ret(outputRaw, err)
  ELSE Ret(NilObj, NilErr)

\* EksAddonCreated with the ResourceNotFoundException check of EksAddonDeleted
EksAddonCreated_SwallowsNotFound(outputRaw, err) ==
  IF err # NilErr /\ ErrCodeEquals(err, "ResourceNotFoundException")
  THEN Ret(NilObj, NilErr)
  ELSE IF outputRaw # NilObj
  THEN IF outputRaw.status = "CREATE_FAILED"
       THEN LET detailedErrors ==
                  [i \in 1..Len(outputRaw.errors) |-> AddonIssueLine(i - 1, outputRaw.errors[i])]
            IN  Ret(outputRaw,
                    FailureError(outputRaw.status,
                      <<"creation not successful (", outputRaw.status, "): Errors:\n">>
                        \o Join(detailedErrors, "\n")))
       ELSE Ret(outputRaw, err)
  ELSE Ret(NilObj, err)


\* EksAddonCreated returning "nil, err" when the add-on is not CREATE_FAILED
EksAddonCreated_DropsAddon(outputRaw, err) ==
  IF outputRaw # NilObj
  THEN IF outputRaw.status = "CREATE_FAILED"
       THEN LET detailedErrors ==
                  [i \in 1..Len(outputRaw.errors) |-> AddonIssueLine(i - 1, outputRaw.errors[i])]
            IN  Ret(outputRaw,
                    FailureError(outputRaw.status,
                      <<"creation not successful (", outputRaw.status, "): Errors:\n">>
                        \o Join(detailedErrors, "\n")))
       ELSE Ret(NilObj, err)
  ELSE Ret(NilObj, err)

EksAddonCreated(outputRaw, err) ==
  IF outputRaw # NilObj
  THEN IF outputRaw.status = "CREATE_FAILED"
       THEN LET detailedErrors ==
                  [i \in 1..Len(outputRaw.errors) |-> AddonIssueLine(i - 1, outputRaw.errors[i])]
            IN  Ret(outputRaw,
                    FailureError(outputRaw.status,
                      <<"creation not successful (", outputRaw.status, "): Errors:\n">>
                        \o Join(detailedErrors, "\n")))
       ELSE Ret(outputRaw, err)
  ELSE Ret(NilObj, err)

\* EksAddonDeleted without the ResourceNotFoundException check
EksAddonDeleted_NoNotFoundCheck(outputRaw, err) ==
  IF outputRaw # NilObj THEN Ret(outputRaw, err) ELSE Ret(NilObj, err)

EksAddonDeleted(outputRaw, err) ==
  IF err # NilErr /\ ErrCodeEquals(err, "ResourceNotFoundException")
  THEN Ret(NilObj, NilErr)
  ELSE IF outputRaw # NilObj THEN Ret(outputRaw, err) ELSE Ret(NilObj, err)

\* EksAddonUpdateSuccessful with "return nil, nil" under "if err != nil"
EksAddonUpdateSuccessful_SwallowsErr(outputRaw, err) ==
  IF err # NilErr THEN Ret(NilObj, NilErr)
  ELSE IF outputRaw = NilObj THEN Ret(NilObj, err)
  ELSE IF outputRaw.status = "Successful" THEN Ret(NilObj, NilErr)
  ELSE LET detailedErrors ==
             [i \in 1..Len(outputRaw.errors) |-> UpdateErrorLine(i - 1, outputRaw.errors[i])]
       IN  Ret(outputRaw,
               FailureError(outputRaw.status,
                 <<"EKS add-on (", "clusterName", ":", "addonName", ") update (", "updateID",
                   ") not successful (", outputRaw.status, "): Errors:\n">>
                   \o Join(detailedErrors, "\n")))


\* EksAddonUpdateSuccessful returning "update, nil" for a Successful update,
\* as the cluster and node group update waiters do
EksAddonUpdateSuccessful_ReturnsUpdate(outputRaw, err) ==
  IF err # NilErr THEN Ret(NilObj, err)
  ELSE IF outputRaw = NilObj THEN Ret(NilObj, err)
  ELSE IF outputRaw.status = "Successful" THEN Ret(outputRaw, NilErr)
  ELSE LET detailedErrors ==
             [i \in 1..Len(outputRaw.errors) |-> UpdateErrorLine(i - 1, outputRaw.errors[i])]
       IN  Ret(outputRaw,
               FailureError(outputRaw.status,
                 <<"EKS add-on (", "clusterName", ":", "addonName", ") update (", "updateID",
                   ") not successful (", outputRaw.status, "): Errors:\n">>
                   \o Join(detailedErrors, "\n")))

\* EksAddonUpdateSuccessful returning "outputRaw, err" under "if err != nil"
EksAddonUpdateSuccessful_KeepsObjectOnErr(outputRaw, err) ==
  IF err # NilErr THEN Ret(outputRaw, err)
  ELSE IF outputRaw = NilObj THEN Ret(NilObj, err)
  ELSE IF outputRaw.status = "Successful" THEN Ret(NilObj, NilErr)
  ELSE LET detailedErrors ==
             [i \in 1..Len(outputRaw.errors) |-> UpdateErrorLine(i - 1, outputRaw.errors[i])]
       IN  Ret(outputRaw,
               FailureError(outputRaw.status,
                 <<"EKS add-on (", "clusterName", ":", "addonName", ") update (", "updateID",
                   ") not successful (", outputRaw.status, "): Errors:\n">>
                   \o Join(detailedErrors, "\n")))

EksAddonUpdateSuccessful(outputRaw, err) ==
  IF err # NilErr THEN Ret(NilObj, err)
  ELSE IF outputRaw = NilObj THEN Ret(NilObj, err)
  ELSE IF outputRaw.status = "Successful" THEN Ret(NilObj, NilErr)
  ELSE LET detailedErrors ==
             [i \in 1..Len(outputRaw.errors) |-> UpdateErrorLine(i - 1, outputRaw.errors[i])]
       IN  Ret(outputRaw,
               FailureError(outputRaw.status,
                 <<"EKS add-on (", "clusterName", ":", "addonName", ") update (", "updateID",
                   ") not successful (", outputRaw.status, "): Errors:\n">>
                   \o Join(detailedErrors, "\n")))

\* the return path of waiter wn
Waiter(wn, outputRaw, err) ==
  CASE wn = "ClusterCreated"            -> ClusterCreated(outputRaw, err)
    [] wn = "ClusterDeleted"            -> ClusterDeleted(outputRaw, err)
    [] wn = "ClusterUpdateSuccessful"   -> ClusterUpdateSuccessful(outputRaw, err)
    [] wn = "FargateProfileCreated"     -> FargateProfileCreated(outputRaw, err)
    [] wn = "FargateProfileDeleted"     -> FargateProfileDeleted(outputRaw, err)
    [] wn = "NodegroupCreated"          -> NodegroupCreated(outputRaw, err)
    [] wn = "NodegroupDeleted"          -> NodegroupDeleted(outputRaw, err)
    [] wn = "NodegroupUpdateSuccessful" -> NodegroupUpdateSuccessful(outputRaw, err)
    [] wn = "EksAddonCreated"           -> EksAddonCreated(outputRaw, err)
    [] wn = "EksAddonDeleted"           -> EksAddonDeleted(outputRaw, err)
    [] wn = "EksAddonUpdateSuccessful"  -> EksAddonUpdateSuccessful(outputRaw, err)

\* ------------------------------------------------------- the Waiter Engine
\* One pass of steps 2c-2e of the polling loop on the result r of a probe:
\* stop with (obj, err), or sleep and poll again.
WaitStep(pendingStates, targetStates, r) ==
  IF r.kind = "notfound" /\ targetStates = {}
  THEN [stop |-> TRUE, obj |-> NilObj, err |-> NilErr]
  ELSE IF r.kind = "notfound"
  THEN [stop |-> TRUE, obj |-> NilObj, err |-> ProbeError("NotFound")]
  ELSE IF r.kind = "error"
  THEN [stop |-> TRUE, obj |-> NilObj, err |-> ProbeError(r.code)]
  ELSE IF r.obj.status \in targetStates
  THEN [stop |-> TRUE, obj |-> r.obj, err |-> NilErr]
  ELSE IF r.obj.status \in pendingStates
  THEN [stop |-> FALSE, obj |-> NilObj, err |-> NilErr]
  ELSE [stop |-> TRUE, obj |-> r.obj, err |-> UnexpectedStateError(r.obj.status)]

\* ------------------------------------------------------------------- state
VARIABLES
  w,          \* the waiter that was called
  deadline,   \* start time (0) plus StateChangeConf.Timeout
  now,        \* the clock
  cancelled,  \* the context of the call is done
  pc,         \* "loop", "probing", "classify", "sleep", "returned", "done"
  probes,     \* calls of Refresh issued so far
  sleeps,     \* inter-poll sleeps completed so far
  overflow,   \* probes or sleeps went beyond MaxProbes
  hist,       \* [kind, status] of the first MaxProbes probe results
  last,       \* the most recent probe result
  res,        \* what the wait returned: (outputRaw, err)
  ret         \* what the waiter returned to its caller

vars == <<w, deadline, now, cancelled, pc, probes, sleeps, overflow, hist, last, res, ret>>

\* the state discriminator of the most recent probe, "" when there is none
LastState == IF last.kind = "state" THEN last.obj.status ELSE ""

Init ==
  /\ w \in Waiters
  /\ deadline \in Timeouts(w)
  /\ now = 0
  /\ cancelled = FALSE
  /\ pc = "loop"
  /\ probes = 0
  /\ sleeps = 0
  /\ overflow = FALSE
  /\ hist = <<>>
  /\ last = NoPoll
  /\ res = Ret(NilObj, NilErr)
  /\ ret = Ret(NilObj, NilErr)

\* time passes while the wait runs
Tick ==
  /\ pc \in {"loop", "probing", "classify", "sleep"}
  /\ now < MaxTime
  /\ now' = now + 1
  /\ UNCHANGED <<w, deadline, cancelled, pc, probes, sleeps, overflow, hist, last, res, ret>>

\* the caller's context is cancelled while the wait runs
Cancel ==
  /\ HasCtx(w)
  /\ ~cancelled
  /\ pc \in {"loop", "probing", "classify", "sleep"}
  /\ cancelled' = TRUE
  /\ UNCHANGED <<w, deadline, now, pc, probes, sleeps, overflow, hist, last, res, ret>>

\* top of the loop: cancellation is observed
ObserveCancel ==
  /\ pc = "loop"
  /\ cancelled
  /\ res' = Ret(NilObj, CancellationError)
  /\ pc' = "returned"
  /\ UNCHANGED <<w, deadline, now, cancelled, probes, sleeps, overflow, hist, last, ret>>

\* step 2a: the deadline is exceeded before the next probe
DeadlineExceeded ==
  /\ pc = "loop"
  /\ ~cancelled
  /\ now > deadline
  /\ \E o \in {NilObj, last.obj} : res' = Ret(o, TimeoutError(LastState))
  /\ pc' = "returned"
  /\ UNCHANGED <<w, deadline, now, cancelled, probes, sleeps, overflow, hist, last, ret>>


\* IssueProbe that does not wait for the previous result to be classified
IssueProbe_BeforeClassified ==
  /\ pc \in {"loop", "classify"}
  /\ ~cancelled
  /\ now <= deadline
  /\ pc' = "probing"
  /\ IF probes < MaxProbes
     THEN probes' = probes + 1 /\ overflow' = overflow
     ELSE probes' = probes /\ overflow' = TRUE
  /\ UNCHANGED <<w, deadline, now, cancelled, sleeps, hist, last, res, ret>>

\* step 2b: the probe is invoked
IssueProbe ==
  /\ pc = "loop"
  /\ ~cancelled
  /\ now <= deadline
  /\ pc' = "probing"
  /\ IF probes < MaxProbes
     THEN probes' = probes + 1 /\ overflow' = overflow
     ELSE probes' = probes /\ overflow' = TRUE
  /\ UNCHANGED <<w, deadline, now, cancelled, sleeps, hist, last, res, ret>>

\* the probe returns; only the most recent result is retained
ProbeReturn ==
  /\ pc = "probing"
  /\ \E r \in PollResults(w, probes) :
       /\ last' = r
       /\ hist' = IF overflow THEN hist
                  ELSE Append(hist, [kind |-> r.kind, status |-> r.obj.status])
  /\ pc' = "classify"
  /\ UNCHANGED <<w, deadline, now, cancelled, probes, sleeps, overflow, res, ret>>

\* steps 2c-2e: the result is classified
EngineClassify ==
  /\ pc = "classify"
  /\ LET d == WaitStep(Pending(w), Target(w), last)
     IN  IF d.stop
         THEN res' = Ret(d.obj, d.err) /\ pc' = "returned"
         ELSE res' = res /\ pc' = "sleep"
  /\ UNCHANGED <<w, deadline, now, cancelled, probes, sleeps, overflow, hist, last, ret>>

\* the inter-poll sleep ends
SleepDone ==
  /\ pc = "sleep"
  /\ pc' = "loop"
  /\ sleeps' = IF overflow THEN sleeps ELSE sleeps + 1
  /\ UNCHANGED <<w, deadline, now, cancelled, probes, overflow, hist, last, res, ret>>

\* the inter-poll sleep is aborted by cancellation
SleepCancelled ==
  /\ pc = "sleep"
  /\ cancelled
  /\ res' = Ret(NilObj, CancellationError)
  /\ pc' = "returned"
  /\ UNCHANGED <<w, deadline, now, cancelled, probes, sleeps, overflow, hist, last, ret>>

\* the waiter post-processes (outputRaw, err) and returns
Return ==
  /\ pc = "returned"
  /\ ret' = Waiter(w, res.obj, res.err)
  /\ pc' = "done"
  /\ UNCHANGED <<w, deadline, now, cancelled, probes, sleeps, overflow, hist, last, res>>

Next ==
  \/ Tick
  \/ Cancel
  \/ ObserveCancel
  \/ DeadlineExceeded
  \/ IssueProbe
  \/ ProbeReturn
  \/ EngineClassify
  \/ SleepDone
  \/ SleepCancelled
  \/ Return

Spec == Init /\ [][Next]_vars

\* the wait's own steps are taken when they can be, the probe returns and
\* the clock advances
FairSpec ==
  /\ Spec
  /\ WF_vars(Tick)
  /\ WF_vars(ObserveCancel)
  /\ WF_vars(DeadlineExceeded)
  /\ WF_vars(IssueProbe)
  /\ WF_vars(ProbeReturn)
  /\ WF_vars(EngineClassify)
  /\ WF_vars(SleepDone)
  /\ WF_vars(Return)

\* ------------------------------------------------------------ claim helpers
\* the wait has returned to the waiter
Returned == pc \in {"returned", "done"}

\* the waiters that hand (outputRaw, err) on as it is
PassThrough ==
  { "ClusterCreated", "ClusterDeleted", "FargateProfileCreated",
    "FargateProfileDeleted", "NodegroupCreated", "NodegroupDeleted" }

IsPendingAt(i) == hist[i].kind = "state" /\ hist[i].status \in Pending(w)
IsTargetAt(i) == hist[i].kind = "state" /\ hist[i].status \in Target(w)

\* every probe so far returned a pending state
AllPending ==
  /\ \A i \in 1..Len(hist) : IsPendingAt(i)
  /\ last.kind = "none" \/ (last.kind = "state" /\ last.obj.status \in Pending(w))

\* the most recent probe failed with the API's not-found error code
LastIsNotFoundError == last.kind = "error" /\ last.code = "ResourceNotFoundException"

\* the most recent probe returned a failure discriminator of the waiter
LastIsFailure == last.kind = "state" /\ last.obj.status \in FailureStates(w)

\* the entry "Error i: Code: <code> / Message: <message>"
NumberedEntry(i, e) == <<"Error ", Itoa(i), ": Code: ", e[1], " / Message: ", e[2]>>

\* msg ends with the numbered entries of errs: one per sub-error, in the
\* order of errs, numbered from 1, a newline between two entries, and no
\* other entry anywhere in msg
HasNumberedEntries(msg, errs) ==
  LET k == Len(errs)
      base == Len(msg) - (7 * k - 1)
  IN  k = 0 \/
      /\ base >= 0
      /\ \A i \in 1..k :
           /\ SubSeq(msg, base + 7 * (i - 1) + 1, base + 7 * (i - 1) + 6) = NumberedEntry(i, errs[i])
           /\ i < k => msg[base + 7 * i] = "\n"
      /\ Cardinality({ j \in 1..Len(msg) : msg[j] = "Error " }) = k

\* msg is the entries "<code>: <message>" of errs, in order, unnumbered
HasPlainEntries(msg, errs) ==
  /\ Len(msg) = (IF Len(errs) = 0 THEN 0 ELSE 4 * Len(errs) - 1)
  /\ \A i \in 1..Len(errs) :
       SubSeq(msg, 4 * (i - 1) + 1, 4 * (i - 1) + 3) = <<errs[i][1], ": ", errs[i][2]>>

\* ------------------------------------------------------------------ claims

\* C1: when the first probe returns a target state, the wait returns that
\* probe's object with no error after exactly one probe and no sleep (and a
\* waiter without a classifier hands exactly that to its caller).
C1_FirstProbeTarget ==
  (Len(hist) >= 1 /\ IsTargetAt(1)) =>
    /\ pc \in {"classify", "returned", "done"}
    /\ probes = 1 /\ sleeps = 0 /\ ~overflow
    /\ Returned => res = Ret(last.obj, NilErr) /\ res.obj.id = 1
                   /\ res.obj.status = hist[1].status
    /\ (pc = "done" /\ w \in PassThrough) => ret.obj.id = 1 /\ ret.err = NilErr

C1_Witness ==
  /\ pc = "done" /\ w = "ClusterCreated"
  /\ hist = << [kind |-> "state", status |-> "ACTIVE"] >>
  /\ ret.obj.id = 1 /\ ret.err = NilErr /\ sleeps = 0

\* C2: for every N, when the probe returns a pending state on its first N
\* calls and a target state on call N+1, the wait made exactly N sleeps and
\* N+1 probes and returns the object of the last probe with no error.
C2_PendingThenTarget ==
  ( /\ Returned /\ ~overflow
    /\ Len(hist) >= 1
    /\ IsTargetAt(Len(hist))
    /\ \A i \in 1..(Len(hist) - 1) : IsPendingAt(i) ) =>
    /\ sleeps = Len(hist) - 1
    /\ probes = Len(hist)
    /\ res.err = NilErr
    /\ res.obj = last.obj /\ res.obj.id = Len(hist)
    /\ res.obj.status = hist[Len(hist)].status
    /\ (pc = "done" /\ w \in PassThrough) => ret.obj.id = Len(hist) /\ ret.err = NilErr

C2_Witness ==
  /\ pc = "done" /\ w = "NodegroupCreated"
  /\ Len(hist) = 3 /\ IsPendingAt(1) /\ IsPendingAt(2) /\ IsTargetAt(3)
  /\ sleeps = 2 /\ probes = 3
  /\ ret.obj.id = 3 /\ ret.err = NilErr

\* C3: when every probe returns a pending state the wait terminates: unless
\* the caller cancels, it ends after the deadline has passed with a
\* TimeoutError that carries the last observed pending state, and the waiter
\* hands that error to its caller; no wait runs forever.
C3_TimeoutWhenAlwaysPending ==
  /\ [] ( (Returned /\ AllPending) =>
            \/ /\ res.err = TimeoutError(LastState)
               /\ now > deadline
               /\ probes > 0 => LastState \in Pending(w)
               /\ pc = "done" => ret.err = res.err
            \/ /\ HasCtx(w) /\ cancelled
               /\ res.err = CancellationError )
  /\ <>(pc = "done")

C3_Witness ==
  /\ pc = "done" /\ w = "ClusterDeleted"
  /\ AllPending /\ probes >= 2
  /\ ret.err = TimeoutError("DELETING")

\* C4: in a wait with an empty target set, a probe that reports "not found"
\* makes the wait and the waiter return (nil, nil); EksAddonDeleted turns a
\* ResourceNotFoundException that comes back from the wait into (nil, nil).
C4_DeleteNotFoundIsSuccess ==
  /\ (Returned /\ Target(w) = {} /\ last.kind = "notfound") => res = Ret(NilObj, NilErr)
  /\ (pc = "done" /\ Target(w) = {} /\ last.kind = "notfound") => ret = Ret(NilObj, NilErr)
  /\ (pc = "done" /\ w = "EksAddonDeleted"
        /\ ErrCodeEquals(res.err, "ResourceNotFoundException")) => ret = Ret(NilObj, NilErr)

C4_Witness ==
  /\ pc = "done" /\ w = "EksAddonDeleted"
  /\ LastIsNotFoundError
  /\ res.err = ProbeError("ResourceNotFoundException")
  /\ ret = Ret(NilObj, NilErr)

C6_ProbeErrorPropagates ==
  (last.kind = "error" /\ ~(Target(w) = {} /\ LastIsNotFoundError)) =>
    /\ pc \in {"classify", "returned", "done"}
    /\ ~overflow => probes = Len(hist)
    /\ Returned => res = Ret(NilObj, ProbeError(last.code))
    /\ pc = "done" => ret = Ret(NilObj, ProbeError(last.code))

C6_Witness ==
  /\ pc = "done" /\ w = "EksAddonUpdateSuccessful"
  /\ last.kind = "error" /\ probes = 2
  /\ ret = Ret(NilObj, ProbeError("AccessDeniedException"))

\* C7: once cancellation is signalled and the wait is between polls (asleep
\* or at the top of the loop) it issues no probe and ends with the
\* cancellation outcome; that outcome is not the timeout outcome, the waiter
\* hands it to its caller, and no probe follows it.
C7_CancellationStopsPolling ==
  /\ [] ( Returned =>
            /\ res.err.kind = "Cancelled" => cancelled /\ res.err # TimeoutError(LastState)
            /\ (pc = "done" /\ res.err.kind = "Cancelled") => ret = Ret(NilObj, CancellationError) )
  /\ [][ (cancelled /\ pc \in {"loop", "sleep"}) =>
           /\ probes' = probes /\ overflow' = overflow
           /\ \/ pc' \in {"loop", "sleep"}
              \/ pc' = "returned" /\ res' = Ret(NilObj, CancellationError) ]_vars
  /\ [][ res.err.kind = "Cancelled" =>
           probes' = probes /\ pc' \in {"returned", "done"} /\ res' = res ]_vars

C7_Witness ==
  /\ pc = "done" /\ w = "EksAddonCreated"
  /\ cancelled /\ probes >= 1
  /\ ret = Ret(NilObj, CancellationError)

C10_NotFoundOnlySuccessForDelete ==
  (pc = "done" /\ (last.kind = "notfound" \/ LastIsNotFoundError)) =>
    /\ Target(w) # {} => ret.obj = NilObj /\ ret.err.kind = "ProbeError"
    /\ ret.err = NilErr => Target(w) = {}

C10_Witness ==
  /\ pc = "done" /\ w = "EksAddonCreated"
  /\ LastIsNotFoundError
  /\ ret = Ret(NilObj, ProbeError("ResourceNotFoundException"))

\* the wait ended with a nil error and an object in the success state of the
\* waiter (ACTIVE for a create wait, Successful for an update wait)
SuccessStates(wn) == Target(wn) \ FailureStates(wn)

SuccessOutcome ==
  /\ Returned
  /\ res.err = NilErr /\ res.obj # NilObj
  /\ res.obj.status \in SuccessStates(w)

\* C11 as stated: the classifier of every waiter returns a success outcome
\* unmodified, and applying it to its own result changes nothing.
C11_ClassifyKeepsSuccessOutcome ==
  (pc = "done" /\ SuccessOutcome) =>
    /\ ret = res
    /\ Waiter(w, ret.obj, ret.err) = ret

\* C11, amended: applying the classifier twice to a success outcome gives
\* the same result as applying it once; that result is the outcome
\* unmodified for every waiter but EksAddonUpdateSuccessful, which discards
\* the update and returns (nil, nil).
C11_ClassifyIdempotentOnSuccess ==
  (pc = "done" /\ SuccessOutcome) =>
    /\ Waiter(w, ret.obj, ret.err) = ret
    /\ IF w = "EksAddonUpdateSuccessful"
       THEN ret = Ret(NilObj, NilErr)
       ELSE ret = res /\ ret.obj = last.obj

C11_Witness ==
  /\ pc = "done" /\ w = "EksAddonCreated"
  /\ SuccessOutcome /\ res.obj.status = "ACTIVE" /\ probes = 2
  /\ ret = res
  /\ EksAddonCreated(ret.obj, ret.err) = ret

\* C12: in the configuration of every waiter no status is both a pending
\* state and a target state, so no probed status is read both ways.
C12_PendingTargetDisjoint ==
  /\ Pending(w) \cap Target(w) = {}
  /\ \A i \in 1..Len(hist) : ~(IsPendingAt(i) /\ IsTargetAt(i))

C12_Witness ==
  /\ pc = "done" /\ w = "EksAddonCreated"
  /\ Len(hist) = 2 /\ IsPendingAt(1) /\ IsTargetAt(2)
  /\ Pending(w) = {"CREATING"} /\ Target(w) = {"ACTIVE", "CREATE_FAILED"}

\* a step that issues a probe
ProbeIssued == pc # "probing" /\ pc' = "probing"

\* C13: within one wait at most one probe is in flight, and a probe is issued
\* only at the top of the loop, after the result of the previous probe (if
\* any) was classified as pending.
C13_ProbesSequential ==
  /\ [] ( /\ ~overflow => probes - Len(hist) = (IF pc = "probing" THEN 1 ELSE 0)
          /\ pc = "classify" => last.kind # "none" )
  /\ [][ ProbeIssued =>
           /\ pc = "loop"
           /\ last.kind = "none" \/ (last.kind = "state" /\ last.obj.status \in Pending(w))
           /\ ~overflow => Len(hist) = probes /\ sleeps = probes ]_vars
  /\ [][ pc = "classify" => pc' \in {"classify", "sleep", "returned"} /\ probes' = probes ]_vars

C13_Witness ==
  /\ pc = "probing" /\ w = "ClusterCreated"
  /\ probes = 3 /\ Len(hist) = 2 /\ sleeps = 2
  /\ last.kind = "state" /\ last.obj.status = "CREATING"

\* C14: a probe is issued only while the clock has not passed the deadline,
\* which for the add-on waiters is the package constant of the waiter; at
\* the top of the loop with the deadline passed the wait does not probe but
\* fails with a TimeoutError.
C14_NoProbeAfterDeadline ==
  /\ [] ( (Returned /\ res.err.kind = "Timeout") => now > deadline )
  /\ [][ ProbeIssued =>
           /\ now <= deadline
           /\ w = "EksAddonCreated" => now <= EksAddonCreatedTimeout
           /\ w = "EksAddonDeleted" => now <= EksAddonDeletedTimeout
           /\ w = "EksAddonUpdateSuccessful" => now <= EksAddonUpdatedTimeout ]_vars
  /\ [][ (pc = "loop" /\ now > deadline /\ ~cancelled) =>
           \/ pc' = "loop" /\ probes' = probes
           \/ pc' = "returned" /\ res'.err = TimeoutError(LastState) ]_vars

C14_Witness ==
  /\ pc = "done" /\ w = "FargateProfileCreated"
  /\ deadline = 1 /\ now = 2 /\ probes = 2
  /\ ret.err = TimeoutError("CREATING")

\* the most recent probe returned the status s
LastStatusIs(s) == last.kind = "state" /\ last.obj.status = s

C16_UpdateWaitersReturnBareMarker ==
  (pc = "done" /\ w \in UpdateWaiters) =>
    (ret = Ret(NilObj, NilErr) <=> LastStatusIs("Successful"))

\* C16, amended: EksAddonUpdateSuccessful returns (nil, nil) exactly when the
\* final observed update status is Successful; ClusterUpdateSuccessful and
\* NodegroupUpdateSuccessful return the update with a nil error in that case
\* and never return (nil, nil).
C16_AddonUpdateBareMarker ==
  (pc = "done" /\ w \in UpdateWaiters) =>
    IF w = "EksAddonUpdateSuccessful"
    THEN ret = Ret(NilObj, NilErr) <=> LastStatusIs("Successful")
    ELSE /\ ret # Ret(NilObj, NilErr)
         /\ LastStatusIs("Successful") <=> (ret = Ret(last.obj, NilErr) /\ ret.obj # NilObj)

C16_Witness ==
  /\ pc = "done" /\ w = "EksAddonUpdateSuccessful"
  /\ LastStatusIs("Successful") /\ probes = 2
  /\ res.obj # NilObj
  /\ ret = Ret(NilObj, NilErr)

\* the outcomes a caller can tell apart, read off what the waiter returned
\* and the probe that ended the wait
IsSuccessWithObject == ret.err = NilErr /\ ret.obj # NilObj
IsDisappearance ==
  /\ ret = Ret(NilObj, NilErr)
  /\ Target(w) = {}
  /\ last.kind = "notfound" \/ LastIsNotFoundError
IsBareSuccess ==
  /\ ret = Ret(NilObj, NilErr)
  /\ w = "EksAddonUpdateSuccessful"
  /\ LastStatusIs("Successful")
IsProbeError == ret.err.kind = "ProbeError"
IsTimeout == ret.err.kind = "Timeout"
IsUnexpectedState == ret.err.kind = "UnexpectedState"
IsCancellation == ret.err.kind = "Cancelled"
IsAggregatedFailure == ret.err.kind = "AggregatedFailure"

\* how many of the seven outcomes of the claim the result is
SevenOutcomes ==
  Cardinality({ k \in 1..7 :
    \/ k = 1 /\ IsSuccessWithObject
    \/ k = 2 /\ IsDisappearance
    \/ k = 3 /\ IsProbeError
    \/ k = 4 /\ IsTimeout
    \/ k = 5 /\ IsUnexpectedState
    \/ k = 6 /\ IsCancellation
    \/ k = 7 /\ IsAggregatedFailure })

C18_AddonUpdateResultShape ==
  (pc = "done" /\ w = "EksAddonUpdateSuccessful") =>
    /\ ~(ret.obj # NilObj /\ ret.err = NilErr)
    /\ res.err # NilErr => ret = Ret(NilObj, res.err)
    /\ (res.err = NilErr /\ LastStatusIs("Successful")) => ret = Ret(NilObj, NilErr)
    /\ (res.err = NilErr /\ (LastStatusIs("Cancelled") \/ LastStatusIs("Failed"))) =>
         /\ ret.obj = last.obj /\ ret.obj # NilObj
         /\ ret.err.kind = "AggregatedFailure" /\ ret.err.state = last.obj.status
    /\ res.err.kind \in {"nil", "Timeout", "UnexpectedState", "ProbeError", "Cancelled"}

C18_Witness ==
  /\ pc = "done" /\ w = "EksAddonUpdateSuccessful"
  /\ res.err.kind = "UnexpectedState" /\ res.obj # NilObj /\ res.obj = last.obj
  /\ ret = Ret(NilObj, UnexpectedStateError(""))

\* C19: ClusterUpdateSuccessful and NodegroupUpdateSuccessful have only
\* Successful as target, so a probe that returns Cancelled or Failed is the
\* last probe, whatever the time left, and the wait and the waiter return
\* the update together with an UnexpectedStateError for that status.
C19_UpdateFailureIsUnexpectedState ==
  ( /\ w \in {"ClusterUpdateSuccessful", "NodegroupUpdateSuccessful"}
    /\ LastStatusIs("Cancelled") \/ LastStatusIs("Failed") ) =>
    /\ Target(w) = {"Successful"}
    /\ pc \in {"classify", "returned", "done"}
    /\ ~overflow => probes = Len(hist)
    /\ Returned => res = Ret(last.obj, UnexpectedStateError(last.obj.status))
    /\ pc = "done" => /\ ret.obj = last.obj /\ ret.obj # NilObj
                      /\ ret.err.kind = "UnexpectedState"
                      /\ ret.err.state = last.obj.status

C19_Witness ==
  /\ pc = "done" /\ w = "NodegroupUpdateSuccessful"
  /\ LastStatusIs("Cancelled") /\ probes = 2
  /\ deadline = 2 /\ now = 0
  /\ ret.obj = last.obj /\ ret.err.kind = "UnexpectedState"

====
